---- MODULE Spec2Model ----
(***************************************************************************)
(* A state-machine model of the two demo components of the repository:     *)
(*   UseState  (src/basichooks/src/UseState.js)                            *)
(*   UseEffect (src/unnamed/part_000)                                      *)
(* together with the hook behaviour they rely on (state cells with an      *)
(* update queue processed at the next render pass; effects gated on a      *)
(* dependency list, run after the commit of a pass).                       *)
(*                                                                         *)
(* The sources keep several alternative lines in comments ("1.", "2.",     *)
(* "3."; "wrong way to do"; "call only one time"; ...).  Each alternative  *)
(* is a form the program can be built in; the model picks the form in      *)
(* Init and never changes it.  The forms that are live in the source are   *)
(* countForm = "lazy", incLine = "L24", decLine = "L28", variant = "deps". *)
(***************************************************************************)
EXTENDS Integers, Sequences, FiniteSets, TLC

\* ------------------------------------------------------------------ bounds
\* Clicks on "+" and "-" of a mounted UseState.
MaxPresses == 4
\* Clicks on the three buttons of a mounted UseEffect.
MaxClicks == 2
\* Resize events delivered by the window.
MaxResizes == 1

VARIABLES
    app,            \* which component the page mounts: "UseState" | "UseEffect"
    life,           \* "new" (not yet rendered) | "mounted" | "torndown"
    renders,        \* committed render passes of the instance
    clicks,         \* clicks handled so far
    \* ---- UseState.js
    countForm,      \* form of the count cell's initial value: line 8, 9 or 13
    incLine,        \* the line of handleIncrement that is live
    decLine,        \* the line of handleDecrement that is live
    count,          \* const [count, setCount]
    countQ,         \* updates of count issued since the last pass
    state,          \* const [state, setState]
    stateQ,         \* updaters of state issued since the last pass
    producerRuns,   \* executions of the producer of count's initial value
    stateInitRuns,  \* executions of the initializer of state (line 18)
    handled,        \* the handlers invoked since the last pass: "inc" | "dec"
    applied,        \* the handlers whose updates the last pass applied
    incs,           \* clicks on "+" handled so far
    \* ---- UseEffect (part_000)
    variant,        \* which form of the first effect is live: lines 5-13, 16-24, 28-35
    resourceType,   \* const [resourceType, setResourceType]
    rtQ,            \* values passed to setResourceType since the last pass
    items,          \* const [items, setItems]: 0 for [], else the id of the fetch whose json it is
    itemsQ,         \* values passed to setItems since the last pass
    windowSize,     \* const [windowSize, setWindowSize]
    wsQ,            \* values passed to setWindowSize since the last pass
    innerWidth,     \* window.innerWidth
    resizes,        \* resize events delivered so far
    fetches,        \* the fetches issued, in order: [res, st]
    prevDeps,       \* per registration: the dependency list of the previous pass
    cleanupOf,      \* per registration: the run whose cleanup is retained, 0 for none
    runs,           \* per registration: callback invocations
    cleanups,       \* per registration: cleanup invocations
    effectQ,        \* effect steps of the committed pass still to run
    listeners,      \* 'resize' listeners registered on window (by the run that added them)
    lateSetItems,   \* setItems was called after teardown
    lateResize      \* a resize event after teardown: "none" | "ignored" | "handled"

useStateVars == <<countForm, incLine, decLine, count, countQ, state, stateQ,
                  producerRuns, stateInitRuns, handled, applied, incs>>
useEffectVars == <<variant, resourceType, rtQ, items, itemsQ, windowSize, wsQ,
                   innerWidth, resizes, fetches, prevDeps, cleanupOf, runs,
                   cleanups, effectQ, listeners, lateSetItems, lateResize>>
vars == <<app, life, renders, clicks, useStateVars, useEffectVars>>

\* ------------------------------------------------------------ state cells

\* An update handed to a setter: an updater function prev => prev + d
\* (fn = TRUE) or a literal new value d (fn = FALSE).
FnUpdate(d) == [fn |-> TRUE, d |-> d]
LitUpdate(v) == [fn |-> FALSE, d |-> v]

ApplyCountUpdate(u, prev) == IF u.fn THEN prev + u.d ELSE u.d

\* The pending updates of a pass are applied in sequence, each against the
\* result of the one before it.
RECURSIVE ProcessCountQueue(_, _)
ProcessCountQueue(v, q) ==
    IF q = <<>> THEN v
    ELSE ProcessCountQueue(ApplyCountUpdate(Head(q), v), Tail(q))

\* {...prev, k1: v1, ...}: the keys of prev, overridden by the listed ones.
Spread(prev, over) ==
    [k \in (DOMAIN prev) \cup (DOMAIN over) |->
        IF k \in DOMAIN over THEN over[k] ELSE prev[k]]

\* Variant: a setter that merges the updater's result into prev, so that
\* lines 22 and 27 would keep theme.
ApplyStateUpdaterMerging(line, prev) ==
    CASE line = "L22" -> Spread(prev, [count |-> prev.count + 1])
      [] line = "L23" -> Spread(prev, [count |-> prev.count + 1])
      [] line = "L24" -> Spread(prev, [count |-> prev.count + 1, theme |-> "blue"])
      [] line = "L27" -> Spread(prev, [count |-> prev.count + 1])
      [] line = "L28" -> Spread(prev, [count |-> prev.count - 1, theme |-> "red"])

\* The updater functions passed to setState, by the line that holds them.
ApplyStateUpdater(line, prev) ==
    CASE line = "L22" -> [count |-> prev.count + 1]
      [] line = "L23" -> Spread(prev, [count |-> prev.count + 1])
      [] line = "L24" -> Spread(prev, [count |-> prev.count + 1, theme |-> "blue"])
      [] line = "L27" -> [count |-> prev.count + 1]
      [] line = "L28" -> Spread(prev, [count |-> prev.count - 1, theme |-> "red"])

RECURSIVE ProcessStateQueue(_, _)
ProcessStateQueue(v, q) ==
    IF q = <<>> THEN v
    ELSE ProcessStateQueue(ApplyStateUpdater(Head(q), v), Tail(q))

\* ------------------------------------------------------- UseState.js

CountForms == {"literal", "call", "lazy"}
ObjectIncLines == {"L22", "L23", "L24"}
ObjectDecLines == {"L27", "L28"}
CountIncLines == {"L32", "L33"}
CountDecLines == {"L36", "L40"}

\* The value the count cell is created with: useState(0) on line 8,
\* useState(Initialisaiton()) on line 9, useState(() => {...; return 1}) on
\* line 13.
InitialCount(form) == IF form = "literal" THEN 0 ELSE 1

\* How often the producer of count's initial value executes in one call of
\* the component function.  A call expression in the argument (line 9) is
\* evaluated by every call; a function passed as the argument (line 13) is
\* invoked by the cell, when it is created.
\* Variant: the function of line 13 invoked by every pass, as if it were the
\* call of line 9.
ProducerRunsEveryPass(form, first) ==
    IF form = "literal" THEN 0 ELSE 1

\* Variant: the call of line 9 evaluated by the first pass only, as if it
\* were the function of line 13.
ProducerRunsFirstPassOnly(form, first) ==
    IF form = "literal" THEN 0 ELSE IF first THEN 1 ELSE 0

ProducerRunsInPass(form, first) ==
    CASE form = "literal" -> 0
      [] form = "call" -> 1
      [] form = "lazy" -> IF first THEN 1 ELSE 0

\* const [state, setState] = useState(() => {return {count:0, theme:"blue"}})
InitialState == [count |-> 0, theme |-> "blue"]

StateInitRunsInPass(first) == IF first THEN 1 ELSE 0

\* The setCount calls of handleIncrement, c being the count of the render
\* the handler was created in.
IncrementCountUpdates(line, c) ==
    CASE line = "L32" -> <<LitUpdate(c + 1)>>
      [] line = "L33" -> <<FnUpdate(1)>>
      [] OTHER -> <<>>

\* The setState calls of handleIncrement.
IncrementStateUpdates(line) ==
    IF line \in ObjectIncLines THEN <<line>> ELSE <<>>

\* Variant: handleDecrement always in the form of lines 40-41.
DecrementAllLiteral(line, c) ==
    IF line \in CountDecLines THEN <<LitUpdate(c - 1), LitUpdate(c - 1)>> ELSE <<>>

\* Variant: handleDecrement always in the form of lines 36-37.
DecrementAllFunctional(line, c) ==
    IF line \in CountDecLines THEN <<FnUpdate(-1), FnUpdate(-1)>> ELSE <<>>

\* The setCount calls of handleDecrement: lines 36-37, or lines 40-41.
DecrementCountUpdates(line, c) ==
    CASE line = "L36" -> <<FnUpdate(-1), FnUpdate(-1)>>
      [] line = "L40" -> <<LitUpdate(c - 1), LitUpdate(c - 1)>>
      [] OTHER -> <<>>

\* Variant: handleDecrement with the updater of line 27 (count: prev.count + 1,
\* no spread).
DecrementStateUpdatesLine27(line) ==
    IF line \in ObjectDecLines THEN <<"L27">> ELSE <<>>

\* The setState calls of handleDecrement.
DecrementStateUpdates(line) ==
    IF line \in ObjectDecLines THEN <<line>> ELSE <<>>

InitUseState ==
    /\ app = "UseState"
    /\ countForm \in CountForms
    /\ \/ incLine \in ObjectIncLines /\ decLine \in ObjectDecLines
       \/ incLine \in CountIncLines /\ decLine \in CountDecLines
    /\ count = 0
    /\ countQ = <<>>
    /\ state = <<>>
    /\ stateQ = <<>>
    /\ producerRuns = 0
    /\ stateInitRuns = 0
    /\ handled = <<>>
    /\ applied = <<>>
    /\ incs = 0

\* One call of the component function UseState and the commit of its output.
\* The first call creates the two cells; a later one is caused by pending
\* updates, which it applies.
RenderUseState ==
    /\ app = "UseState"
    /\ \/ life = "new"
       \/ life = "mounted" /\ (countQ # <<>> \/ stateQ # <<>>)
    /\ producerRuns' = producerRuns + ProducerRunsInPass(countForm, life = "new")
    /\ stateInitRuns' = stateInitRuns + StateInitRunsInPass(life = "new")
    /\ count' = IF life = "new" THEN InitialCount(countForm)
                ELSE ProcessCountQueue(count, countQ)
    /\ state' = IF life = "new" THEN InitialState
                ELSE ProcessStateQueue(state, stateQ)
    /\ countQ' = <<>>
    /\ stateQ' = <<>>
    /\ handled' = <<>>
    /\ applied' = handled
    /\ life' = "mounted"
    /\ renders' = renders + 1
    /\ UNCHANGED <<app, clicks, countForm, incLine, decLine, incs, useEffectVars>>

\* A click on "+".
handleIncrement ==
    /\ app = "UseState"
    /\ life = "mounted"
    /\ clicks < MaxPresses
    /\ clicks' = clicks + 1
    /\ countQ' = countQ \o IncrementCountUpdates(incLine, count)
    /\ stateQ' = stateQ \o IncrementStateUpdates(incLine)
    /\ handled' = Append(handled, "inc")
    /\ incs' = incs + 1
    /\ UNCHANGED <<app, life, renders, countForm, incLine, decLine, count, state,
                   producerRuns, stateInitRuns, applied, useEffectVars>>

\* A click on "-".
handleDecrement ==
    /\ app = "UseState"
    /\ life = "mounted"
    /\ clicks < MaxPresses
    /\ clicks' = clicks + 1
    /\ countQ' = countQ \o DecrementCountUpdates(decLine, count)
    /\ stateQ' = stateQ \o DecrementStateUpdates(decLine)
    /\ handled' = Append(handled, "dec")
    /\ UNCHANGED <<app, life, renders, countForm, incLine, decLine, count, state,
                   producerRuns, stateInitRuns, applied, incs, useEffectVars>>

\* The instance is removed from the page; its cells and their pending
\* updates go with it.
UnmountUseState ==
    /\ app = "UseState"
    /\ life = "mounted"
    /\ life' = "torndown"
    /\ countQ' = <<>>
    /\ stateQ' = <<>>
    /\ handled' = <<>>
    /\ UNCHANGED <<app, renders, clicks, countForm, incLine, decLine, count, state,
                   producerRuns, stateInitRuns, applied, incs, useEffectVars>>

NextUseState ==
    \/ RenderUseState
    \/ handleIncrement
    \/ handleDecrement
    \/ UnmountUseState

\* ------------------------------------------------------- UseEffect

\* The three forms of the first effect: lines 5-13 ([resourceType]), lines
\* 16-24 ([]) and lines 28-35 (no dependency list, the fetch commented out).
Variants == {"deps", "once", "every"}
\* The values the three buttons set (lines 53-55).
Buttons == {"Posts", "Users", "Comments"}
\* The widths the window takes.
Widths == {320, 1024}
\* Variant: the two useEffect calls in the opposite order.
RegistrationsSwapped == <<"resize", "main">>

\* The registrations of one instance, in the order the component function
\* makes them (line 5, line 38).
Registrations == <<"main", "resize">>
RegSet == {"main", "resize"}

\* A dependency list as passed to useEffect, or its absence.
Deps(list) == [given |-> TRUE, list |-> list]
NoDeps == [given |-> FALSE, list |-> <<>>]

\* Whether an effect is due after a pass that is not the first: always
\* without a list, else when some element differs from the previous pass's.
DepsChanged(prev, next) ==
    \/ ~next.given
    \/ ~prev.given
    \/ \E i \in 1..Len(next.list) : next.list[i] # prev.list[i]

\* Variant: resourceType left out of the list of line 12.
MainDepsEmptyList(v, rt) ==
    IF v = "every" THEN NoDeps ELSE Deps(<<>>)

\* Variant: the effect of lines 28-35 given the list [].
MainDepsAlwaysListed(v, rt) ==
    IF v = "deps" THEN Deps(<<rt>>) ELSE Deps(<<>>)

\* The second argument of the first useEffect call (line 12, 23, 34).
MainEffectDeps(v, rt) ==
    CASE v = "deps" -> Deps(<<rt>>)
      [] v = "once" -> Deps(<<>>)
      [] v = "every" -> NoDeps

\* Whether the body of the first effect issues the fetch (lines 7-9, 18-20;
\* commented out on lines 30-32).
MainEffectFetches(v) == v \in {"deps", "once"}

\* Variant: the resize effect without its list.
ResizeDepsOmitted == NoDeps

\* The second argument of the resize effect (line 48).
ResizeEffectDeps == Deps(<<>>)

\* Variant: the resize effect without lines 45-47.
ResizeNoCleanup == FALSE

\* The resize effect returns a cleanup (lines 45-47).
ResizeEffectReturnsCleanup == TRUE

\* Variant: removeEventListener given a function that was never added.
RemoveNothing(ls, id) == ls

\* window.removeEventListener('resize', handleResize), handleResize being
\* the function the same run added (line 46).
RemoveListener(ls, id) == ls \ {id}

\* Variant: both registrations compared against the list of the first.
EffectDepsShared(e, v, rt) == MainEffectDeps(v, rt)

\* Variant: the url of the fetch written out instead of interpolated.
FetchTargetFixed(rt) == "posts"

\* The resource the body of the first effect fetches, rt being the
\* resourceType of the pass whose effect it is (line 7).
FetchTarget(rt) == rt

\* Variant: a .catch(() => setItems([])) at the end of the chain.
ItemsAfterRejectCaught(q, i) == Append(q, 0)

\* The setItems calls pending after fetch i rejected: the chain of lines 7-9
\* has no rejection handler, so none is added.
ItemsAfterReject(q, i) == q

\* Variant: the effect returns a cleanup that sets a flag the last .then
\* tests before it calls setItems.
FetchGuardedByFlag == TRUE

\* Whether the first effect keeps its .then from calling setItems once the
\* instance is gone: it returns no cleanup and tests nothing (lines 6-12).
FetchGuarded == FALSE

\* Variant: the instance removed with the effects of its last pass still
\* to run.
TeardownAnytime == TRUE

\* The effects of the committed pass have run before the instance is
\* removed.
TeardownReady == effectQ = <<>>

EffectDeps(e, v, rt) ==
    IF e = "main" THEN MainEffectDeps(v, rt) ELSE ResizeEffectDeps

\* All setters of this component are called with literal values: the last
\* one of a pass stands.
ProcessLiteralQueue(v, q) == IF q = <<>> THEN v ELSE q[Len(q)]

\* The registrations of regs that are in due, in the order of regs.
RECURSIVE SelectRegs(_, _)
SelectRegs(regs, due) ==
    IF regs = <<>> THEN <<>>
    ELSE (IF Head(regs) \in due THEN <<Head(regs)>> ELSE <<>>)
         \o SelectRegs(Tail(regs), due)

Step(op, regs) == [i \in 1..Len(regs) |-> [op |-> op, reg |-> regs[i]]]

\* The effect steps a committed pass leaves to run: the retained cleanups of
\* the registrations that are due, then their callbacks, both in
\* registration order.
EffectSteps(due, live) ==
    Step("cleanup", SelectRegs(Registrations, due \cap live))
    \o Step("run", SelectRegs(Registrations, due))

IdleUseEffect ==
    /\ variant = "deps"
    /\ resourceType = "posts"
    /\ rtQ = <<>>
    /\ items = 0
    /\ itemsQ = <<>>
    /\ windowSize = 0
    /\ wsQ = <<>>
    /\ resizes = 0
    /\ fetches = <<>>
    /\ prevDeps = [e \in RegSet |-> NoDeps]
    /\ cleanupOf = [e \in RegSet |-> 0]
    /\ runs = [e \in RegSet |-> 0]
    /\ cleanups = [e \in RegSet |-> 0]
    /\ effectQ = <<>>
    /\ listeners = {}
    /\ lateSetItems = FALSE
    /\ lateResize = "none"

InitUseEffect ==
    /\ app = "UseEffect"
    /\ variant \in Variants
    /\ innerWidth \in Widths
    /\ resourceType = "posts"
    /\ rtQ = <<>>
    /\ items = 0
    /\ itemsQ = <<>>
    /\ windowSize = 0
    /\ wsQ = <<>>
    /\ resizes = 0
    /\ fetches = <<>>
    /\ prevDeps = [e \in RegSet |-> NoDeps]
    /\ cleanupOf = [e \in RegSet |-> 0]
    /\ runs = [e \in RegSet |-> 0]
    /\ cleanups = [e \in RegSet |-> 0]
    /\ effectQ = <<>>
    /\ listeners = {}
    /\ lateSetItems = FALSE
    /\ lateResize = "none"

\* The values the three cells take in the next call of the component
\* function: useState('posts'), useState([]), useState(window.innerWidth) in
\* the first, the processed queues afterwards.
NextResourceType == IF life = "new" THEN "posts" ELSE ProcessLiteralQueue(resourceType, rtQ)
NextItems == IF life = "new" THEN 0 ELSE ProcessLiteralQueue(items, itemsQ)
NextWindowSize == IF life = "new" THEN innerWidth ELSE ProcessLiteralQueue(windowSize, wsQ)

HasPending == rtQ # <<>> \/ itemsQ # <<>> \/ wsQ # <<>>

StateChanges ==
    \/ NextResourceType # resourceType
    \/ NextItems # items
    \/ NextWindowSize # windowSize

\* One call of the component function UseEffect whose output is committed:
\* the first one, or one in which some cell changed.  The effects of the
\* pass are queued; they run after the commit, before the next pass.
RenderUseEffect ==
    /\ app = "UseEffect"
    /\ effectQ = <<>>
    /\ \/ life = "new"
       \/ life = "mounted" /\ HasPending /\ StateChanges
    /\ resourceType' = NextResourceType
    /\ items' = NextItems
    /\ windowSize' = NextWindowSize
    /\ rtQ' = <<>>
    /\ itemsQ' = <<>>
    /\ wsQ' = <<>>
    /\ prevDeps' = [e \in RegSet |-> EffectDeps(e, variant, NextResourceType)]
    /\ LET due == {e \in RegSet :
                     \/ life = "new"
                     \/ DepsChanged(prevDeps[e], EffectDeps(e, variant, NextResourceType))}
           live == {e \in RegSet : cleanupOf[e] # 0}
       IN effectQ' = EffectSteps(due, live)
    /\ life' = "mounted"
    /\ renders' = renders + 1
    /\ UNCHANGED <<app, clicks, useStateVars, variant, innerWidth, resizes, fetches,
                   cleanupOf, runs, cleanups, listeners, lateSetItems,
                   lateResize>>

\* The pending updates leave every cell as it is: nothing is committed and
\* no effect is queued.
BailOutUseEffect ==
    /\ app = "UseEffect"
    /\ effectQ = <<>>
    /\ life = "mounted"
    /\ HasPending
    /\ ~StateChanges
    /\ rtQ' = <<>>
    /\ itemsQ' = <<>>
    /\ wsQ' = <<>>
    /\ UNCHANGED <<app, life, renders, clicks, useStateVars, variant, resourceType,
                   items, windowSize, innerWidth, resizes, fetches, prevDeps,
                   cleanupOf, runs, cleanups, effectQ, listeners, lateSetItems,
                   lateResize>>

\* The next effect step of the committed pass: a retained cleanup, or a
\* callback.  The callback of the first effect issues the fetch for the
\* resourceType of the pass and returns nothing; the callback of the resize
\* effect adds its handleResize to window and returns the cleanup that
\* removes it.
RunEffectStep ==
    /\ app = "UseEffect"
    /\ effectQ # <<>>
    /\ LET s == Head(effectQ)
           e == s.reg
           n == runs[e] + 1
       IN IF s.op = "cleanup"
          THEN /\ listeners' = IF e = "resize" THEN RemoveListener(listeners, cleanupOf[e])
                             ELSE listeners
               /\ cleanups' = [cleanups EXCEPT ![e] = @ + 1]
               /\ cleanupOf' = [cleanupOf EXCEPT ![e] = 0]
               /\ UNCHANGED <<runs, fetches>>
          ELSE /\ runs' = [runs EXCEPT ![e] = n]
               /\ fetches' = IF e = "main" /\ MainEffectFetches(variant)
                             THEN Append(fetches, [res |-> FetchTarget(resourceType),
                                                   st |-> "inflight"])
                             ELSE fetches
               /\ listeners' = IF e = "resize" THEN listeners \cup {n} ELSE listeners
               /\ cleanupOf' = [cleanupOf EXCEPT
                                  ![e] = IF e = "resize" /\ ResizeEffectReturnsCleanup
                                         THEN n ELSE 0]
               /\ UNCHANGED cleanups
    /\ effectQ' = Tail(effectQ)
    /\ UNCHANGED <<app, life, renders, clicks, useStateVars, variant, resourceType, rtQ,
                   items, itemsQ, windowSize, wsQ, innerWidth, resizes, prevDeps,
                   lateSetItems, lateResize>>

\* A click on one of the three buttons: setResourceType(v).
ClickResource(v) ==
    /\ app = "UseEffect"
    /\ life = "mounted"
    /\ clicks < MaxClicks
    /\ clicks' = clicks + 1
    /\ rtQ' = Append(rtQ, v)
    /\ UNCHANGED <<app, life, renders, useStateVars, variant, resourceType, items,
                   itemsQ, windowSize, wsQ, innerWidth, resizes, fetches, prevDeps,
                   cleanupOf, runs, cleanups, effectQ, listeners, lateSetItems,
                   lateResize>>

\* The window is resized to width w: every registered handleResize calls
\* setWindowSize(window.innerWidth) (lines 39-41).
ResizeEvent(w) ==
    /\ app = "UseEffect"
    /\ resizes < MaxResizes
    /\ w # innerWidth
    /\ resizes' = resizes + 1
    /\ innerWidth' = w
    /\ wsQ' = IF life = "mounted"
              THEN wsQ \o [i \in 1..Cardinality(listeners) |-> w]
              ELSE wsQ
    /\ lateResize' = IF life # "torndown" THEN lateResize
                      ELSE IF listeners # {} THEN "handled"
                      ELSE IF lateResize = "handled" THEN "handled" ELSE "ignored"
    /\ UNCHANGED <<app, life, renders, clicks, useStateVars, variant, resourceType, rtQ,
                   items, itemsQ, windowSize, fetches, prevDeps, cleanupOf, runs,
                   cleanups, effectQ, listeners, lateSetItems>>

\* The fetch i succeeds and its json is parsed: .then(json => setItems(json)).
FetchResolve(i) ==
    /\ app = "UseEffect"
    /\ i \in 1..Len(fetches)
    /\ fetches[i].st = "inflight"
    /\ fetches' = [fetches EXCEPT ![i].st = "resolved"]
    /\ itemsQ' = IF life = "mounted" THEN Append(itemsQ, i) ELSE itemsQ
    /\ lateSetItems' = (lateSetItems \/ (life = "torndown" /\ ~FetchGuarded))
    /\ UNCHANGED <<app, life, renders, clicks, useStateVars, variant, resourceType, rtQ,
                   items, windowSize, wsQ, innerWidth, resizes, prevDeps, cleanupOf,
                   runs, cleanups, effectQ, listeners, lateResize>>

\* The fetch i rejects: neither .then callback runs, and nothing catches.
FetchReject(i) ==
    /\ app = "UseEffect"
    /\ i \in 1..Len(fetches)
    /\ fetches[i].st = "inflight"
    /\ fetches' = [fetches EXCEPT ![i].st = "rejected"]
    /\ itemsQ' = IF life = "mounted" THEN ItemsAfterReject(itemsQ, i) ELSE itemsQ
    /\ UNCHANGED <<app, life, renders, clicks, useStateVars, variant, resourceType, rtQ,
                   items, windowSize, wsQ, innerWidth, resizes, prevDeps,
                   cleanupOf, runs, cleanups, effectQ, listeners, lateSetItems,
                   lateResize>>

\* The instance is removed from the page: every retained cleanup is invoked,
\* and the cells go with their pending updates.
TeardownUseEffect ==
    /\ app = "UseEffect"
    /\ life = "mounted"
    /\ TeardownReady
    /\ life' = "torndown"
    /\ listeners' = IF cleanupOf["resize"] # 0
                    THEN RemoveListener(listeners, cleanupOf["resize"]) ELSE listeners
    /\ cleanups' = [e \in RegSet |-> IF cleanupOf[e] # 0 THEN cleanups[e] + 1 ELSE cleanups[e]]
    /\ cleanupOf' = [e \in RegSet |-> 0]
    /\ rtQ' = <<>>
    /\ itemsQ' = <<>>
    /\ wsQ' = <<>>
    /\ UNCHANGED <<app, renders, clicks, useStateVars, variant, resourceType, items,
                   windowSize, innerWidth, resizes, fetches, prevDeps, runs, effectQ,
                   lateSetItems, lateResize>>

NextUseEffect ==
    \/ RenderUseEffect
    \/ BailOutUseEffect
    \/ RunEffectStep
    \/ \E v \in Buttons : ClickResource(v)
    \/ \E w \in Widths : ResizeEvent(w)
    \/ \E i \in 1..(MaxClicks + 1) : FetchResolve(i)
    \/ \E i \in 1..(MaxClicks + 1) : FetchReject(i)
    \/ TeardownUseEffect

\* ------------------------------------------------------- specification

IdleUseState ==
    /\ countForm = "lazy"
    /\ incLine = "L24"
    /\ decLine = "L28"
    /\ count = 0
    /\ countQ = <<>>
    /\ state = <<>>
    /\ stateQ = <<>>
    /\ producerRuns = 0
    /\ stateInitRuns = 0
    /\ handled = <<>>
    /\ applied = <<>>
    /\ incs = 0

Init ==
    /\ life = "new"
    /\ renders = 0
    /\ clicks = 0
    /\ \/ InitUseState /\ IdleUseEffect /\ innerWidth = 0
       \/ InitUseEffect /\ IdleUseState

Next == NextUseState \/ NextUseEffect

Spec == Init /\ [][Next]_vars

\* ------------------------------------------------------- properties

\* A step that commits a render pass (RenderUseState, RenderUseEffect).
CommitStep == renders' = renders + 1

MainRunQueued ==
    \E i \in 1..Len(effectQ) : effectQ[i] = [op |-> "run", reg |-> "main"]

ResizeRunQueued ==
    \E i \in 1..Len(effectQ) : effectQ[i] = [op |-> "run", reg |-> "resize"]

\* C1: an initializer passed to useState as a zero-argument function (count's
\* on lines 13-16, state's on line 18) is invoked once, by the first render,
\* and never again, whatever re-renders and setter calls follow.
C1_LazyInitializerOnce ==
    app = "UseState" =>
        /\ stateInitRuns = (IF life = "new" THEN 0 ELSE 1)
        /\ countForm = "lazy" => producerRuns = (IF life = "new" THEN 0 ELSE 1)

\* Three committed passes and two handled clicks later, both initializers
\* have still run once.
C1_Witness ==
    /\ app = "UseState"
    /\ countForm = "lazy"
    /\ renders >= 3
    /\ clicks >= 2
    /\ producerRuns = 1
    /\ stateInitRuns = 1

\* The resource of the fetch the first effect issued in its previous run.
LastFetched == fetches[Len(fetches)].res

\* C2: with the dependency list [resourceType], the first effect is queued by
\* the first committed pass, and by a later one exactly when resourceType
\* differs from its value at the effect's previous run; a fetch is issued only
\* by a run of the effect, for the resourceType of its pass.  So a click that
\* sets the value resourceType already holds issues no fetch, and the first
\* click on "Posts" (the cell holds 'posts') does.
C2_FetchEffectGatedOnResourceType ==
    [][ /\ (app = "UseEffect" /\ variant = "deps" /\ CommitStep) =>
              (MainRunQueued' <=> (renders = 0 \/ resourceType' # LastFetched))
        /\ (app = "UseEffect" /\ variant = "deps" /\ ~CommitStep) =>
              (MainRunQueued' => MainRunQueued)
        /\ (app = "UseEffect" /\ Len(fetches') > Len(fetches)) =>
              /\ effectQ # <<>>
              /\ Head(effectQ) = [op |-> "run", reg |-> "main"]
              /\ fetches'[Len(fetches')].res = resourceType
      ]_vars

\* The first click on "Posts" has issued the second fetch, and a second click
\* on "Posts" is pending with the effects of the pass run.
C2_Witness ==
    /\ app = "UseEffect"
    /\ variant = "deps"
    /\ renders = 2
    /\ resourceType = "Posts"
    /\ rtQ = <<"Posts">>
    /\ effectQ = <<>>
    /\ Len(fetches) = 2
    /\ fetches[1].res = "posts"
    /\ fetches[2].res = "Posts"

\* C3: the resize effect (dependency list []) runs once per instance, after
\* the first render pass, however many passes follow.
C3_ResizeEffectRunsOnce ==
    app = "UseEffect" =>
        /\ runs["resize"] <= 1
        /\ life = "new" => runs["resize"] = 0
        /\ (life # "new" /\ ~ResizeRunQueued) => runs["resize"] = 1

\* Passes caused by a resourceType change, an items change and a windowSize
\* change have been committed.
C3_Witness ==
    /\ app = "UseEffect"
    /\ renders >= 4
    /\ resourceType # "posts"
    /\ items # 0
    /\ resizes = 1
    /\ windowSize = innerWidth
    /\ effectQ = <<>>
    /\ runs["resize"] = 1

\* C4: without a dependency list (lines 28-35) the effect runs once after
\* every committed pass: its runs, with the one still queued, number the
\* passes.
C4_NoDepsEffectRunsEveryPass ==
    (app = "UseEffect" /\ variant = "every") =>
        runs["main"] + (IF MainRunQueued THEN 1 ELSE 0) = renders

\* A second pass caused by a resize alone (no click) has run the effect again.
C4_Witness ==
    /\ app = "UseEffect"
    /\ variant = "every"
    /\ clicks = 0
    /\ renders = 2
    /\ effectQ = <<>>
    /\ runs["main"] = 2

C6_ResizeListenerSymmetric ==
    app = "UseEffect" =>
        /\ Cardinality(listeners) <= 1
        /\ runs["resize"] = 0 => listeners = {}
        /\ (life = "mounted" /\ runs["resize"] >= 1) => Cardinality(listeners) = 1
        /\ life = "torndown" => listeners = {}
        /\ lateResize # "handled"

\* A resize event was delivered after teardown and found no listener.
C6_Witness ==
    /\ app = "UseEffect"
    /\ life = "torndown"
    /\ lateResize = "ignored"
    /\ windowSize # innerWidth

RECURSIVE SumOfDeltas(_)
SumOfDeltas(q) == IF q = <<>> THEN 0 ELSE Head(q).d + SumOfDeltas(Tail(q))

\* What the handlers of a pass add when both use updater functions: +1 per
\* handleIncrement (line 33), -2 per handleDecrement (lines 36-37).
RECURSIVE HandledDelta(_)
HandledDelta(h) ==
    IF h = <<>> THEN 0
    ELSE (IF Head(h) = "inc" THEN 1 ELSE -2) + HandledDelta(Tail(h))

\* C7: when every update of a pass is an updater prev => prev + d, the pass
\* moves count by the sum of the deltas, in whatever order they were issued;
\* with lines 33 and 36-37 live that is +1 per click on "+" and -2 per click
\* on "-".
C7_FunctionalUpdatesAddUp ==
    [][ (app = "UseState" /\ life = "mounted" /\ CommitStep) =>
          /\ (\A i \in 1..Len(countQ) : countQ[i].fn) =>
                 count' = count + SumOfDeltas(countQ)
          /\ (incLine = "L33" /\ decLine = "L36") =>
                 count' = count + HandledDelta(handled)
      ]_vars

\* One pass applied a click on "-", one on "+" and one more on "-", issued in
\* that order: count went from 1 to -2.
C7_Witness ==
    /\ app = "UseState"
    /\ incLine = "L33"
    /\ decLine = "L36"
    /\ countForm = "lazy"
    /\ renders = 2
    /\ applied = <<"dec", "inc", "dec">>
    /\ count = -2

\* C8: when the updates of a pass are n >= 2 calls setCount(count - 1) (lines
\* 40-41, count being the value of the last render), the pass leaves count
\* one below that value, not n below, unlike n updaters prev => prev - 1.
C8_LiteralUpdatesCollapse ==
    [][ ( /\ app = "UseState" /\ life = "mounted" /\ CommitStep
          /\ decLine = "L40"
          /\ handled # <<>>
          /\ \A i \in 1..Len(handled) : handled[i] = "dec" ) =>
          /\ Len(countQ) >= 2
          /\ count' = count - 1
          /\ count' # count - Len(countQ)
          /\ count' # ProcessCountQueue(count, [i \in 1..Len(countQ) |-> FnUpdate(-1)])
      ]_vars

\* One click on "-" (two literal updates) took count from 1 to 0.
C8_Witness ==
    /\ app = "UseState"
    /\ decLine = "L40"
    /\ countForm = "lazy"
    /\ renders = 2
    /\ applied = <<"dec">>
    /\ count = 0

\* The keys an updater names itself.
Overridden(line) == IF line \in {"L22", "L23", "L27"} THEN {"count"} ELSE {"count", "theme"}

\* C9: setState replaces the object: an updater that spreads prev (lines 23,
\* 24, 28) yields the keys of prev and its own, every key it does not name
\* keeping prev's value; an updater that does not (lines 22, 27) yields its
\* own keys only.  From {count:0, theme:"blue"}, line 22 gives {count:1}.
C9_SetterReplaces ==
    [][ (app = "UseState" /\ life = "mounted" /\ CommitStep /\ stateQ # <<>>) =>
          LET last == stateQ[Len(stateQ)]
              prev == ProcessStateQueue(state, SubSeq(stateQ, 1, Len(stateQ) - 1))
          IN /\ last \in {"L23", "L24", "L28"} =>
                   /\ DOMAIN state' = (DOMAIN prev) \cup Overridden(last)
                   /\ \A k \in (DOMAIN prev) \ Overridden(last) : state'[k] = prev[k]
             /\ last \in {"L22", "L27"} =>
                   /\ DOMAIN state' = {"count"}
                   /\ state'.count = prev.count + 1
             /\ (stateQ = <<"L22">> /\ state = InitialState) => state' = [count |-> 1]
      ]_vars

\* Line 22 was applied to the initial object: theme is gone.
C9_Witness ==
    /\ app = "UseState"
    /\ incLine = "L22"
    /\ renders = 2
    /\ applied = <<"inc">>
    /\ DOMAIN state = {"count"}
    /\ state.count = 1

\* C10: with useState(Initialisaiton()) (line 9) every call of the component
\* function runs Initialisaiton, so its runs number the passes, while the
\* cell takes its value from it in the first pass only: a later pass leaves
\* count at what the pending updates make of it.
C10_CallResultRunsEveryPass ==
    [][ (app = "UseState" /\ countForm = "call" /\ CommitStep) =>
          /\ producerRuns' = renders'
          /\ life = "mounted" => count' = ProcessCountQueue(count, countQ)
          /\ (life = "mounted" /\ countQ = <<>>) => count' = count
      ]_vars

\* Initialisaiton has run in each of three passes (it returns 1) and count,
\* raised by the clicks, is 3.
C10_Witness ==
    /\ app = "UseState"
    /\ countForm = "call"
    /\ incLine = "L33"
    /\ renders = 3
    /\ producerRuns = 3
    /\ count = 3

RunMain == [op |-> "run", reg |-> "main"]
RunResize == [op |-> "run", reg |-> "resize"]

\* C11: the two registrations are gated each on its own list: with lines
\* 5-13 live, a pass after the first queues the fetch effect exactly when
\* resourceType changed in it and never the resize effect, so a pass in which
\* only items or windowSize changed queues nothing; each registration keeps
\* its own list for the next comparison, and a run of the fetch effect leaves
\* the resize registration as it was.
C11_RegistrationsIndependent ==
    [][ (app = "UseEffect" /\ variant = "deps") =>
          /\ (life = "mounted" /\ CommitStep) =>
                /\ ~ResizeRunQueued'
                /\ MainRunQueued' <=> (resourceType' # resourceType)
                /\ (resourceType' = resourceType) => effectQ' = <<>>
                /\ prevDeps'["main"] = Deps(<<resourceType'>>)
                /\ prevDeps'["resize"] = Deps(<<>>)
          /\ (runs'["main"] # runs["main"]) =>
                /\ runs'["resize"] = runs["resize"]
                /\ cleanupOf'["resize"] = cleanupOf["resize"]
                /\ listeners' = listeners
      ]_vars

\* The second pass, caused by a resize alone, reran neither effect; the third,
\* caused by a click, has queued the fetch effect only.
C11_Witness ==
    /\ app = "UseEffect"
    /\ variant = "deps"
    /\ renders = 3
    /\ resizes = 1
    /\ windowSize = innerWidth
    /\ items = 0
    /\ runs["main"] = 1
    /\ runs["resize"] = 1
    /\ effectQ = <<RunMain>>

\* C12: no effect work happens before the first commit or in the step that
\* commits a pass: a callback or cleanup runs in a later step, from the queue
\* the commit left, at most once per registration and pass; and the fetch the
\* first effect issues is for the resourceType that pass committed, which is
\* still the value of the cell.
C12_EffectsAfterCommit ==
    [][ app = "UseEffect" =>
          /\ CommitStep =>
                (runs' = runs /\ cleanups' = cleanups /\ fetches' = fetches
                 /\ listeners' = listeners)
          /\ (runs' # runs \/ cleanups' # cleanups \/ fetches' # fetches
              \/ listeners' # listeners) => renders >= 1
          /\ \A e \in RegSet : (runs'[e] # runs[e]) =>
                /\ effectQ # <<>>
                /\ Head(effectQ) = [op |-> "run", reg |-> e]
                /\ runs'[e] <= renders
          /\ (Len(fetches') > Len(fetches) /\ variant = "deps") =>
                /\ fetches'[Len(fetches')].res = prevDeps["main"].list[1]
                /\ resourceType = prevDeps["main"].list[1]
      ]_vars

\* The second pass committed "Users" and its effect has fetched Users.
C12_Witness ==
    /\ app = "UseEffect"
    /\ variant = "deps"
    /\ renders = 2
    /\ resourceType = "Users"
    /\ runs["main"] = 2
    /\ Len(fetches) = 2
    /\ fetches[2].res = "Users"

\* C13: the effects a pass queues run in registration order: the first pass
\* queues the first effect's callback ahead of the resize effect's, and the
\* resize callback never runs while the first effect's is still queued.
C13_RegistrationOrder ==
    [][ app = "UseEffect" =>
          /\ (life = "new" /\ CommitStep) => effectQ' = <<RunMain, RunResize>>
          /\ (runs'["resize"] # runs["resize"]) =>
                (~MainRunQueued /\ runs["main"] >= 1)
          /\ (runs'["main"] # runs["main"] /\ renders = 1) => runs["resize"] = 0
      ]_vars

\* After the first pass the first effect has run and the resize effect is
\* next.
C13_Witness ==
    /\ app = "UseEffect"
    /\ renders = 1
    /\ runs["main"] = 1
    /\ runs["resize"] = 0
    /\ effectQ = <<RunResize>>

\* Fetch i goes from in flight to st in this step.
Settles(i, st) ==
    /\ i \in 1..Len(fetches)
    /\ Len(fetches') = Len(fetches)
    /\ fetches[i].st = "inflight"
    /\ fetches'[i].st = st

InItemsQ(i) == \E k \in 1..Len(itemsQ) : itemsQ[k] = i

\* C14: a rejected fetch is unobserved: the step in which it rejects calls no
\* setter and leaves both cells, the fetches issued and the scheduling state
\* of both registrations as they were; afterwards it stays rejected, its json
\* is never handed to setItems, and no fetch is issued but by a run of the
\* effect (no retry).
C14_RejectedFetchUnobserved ==
    [][ app = "UseEffect" =>
          /\ (\E i \in 1..Len(fetches) : Settles(i, "rejected")) =>
                /\ itemsQ' = itemsQ /\ items' = items
                /\ rtQ' = rtQ /\ resourceType' = resourceType
                /\ lateSetItems' = lateSetItems
                /\ UNCHANGED <<prevDeps, cleanupOf, runs, cleanups, effectQ>>
          /\ \A i \in 1..Len(fetches) : fetches[i].st = "rejected" =>
                /\ fetches'[i].st = "rejected"
                /\ items' # i
                /\ ~InItemsQ(i)'
          /\ MainEffectFetches(variant) => Len(fetches') = runs'["main"]
      ]_vars

\* The only fetch was rejected, a later pass was committed, and items is
\* still [].
C14_Witness ==
    /\ app = "UseEffect"
    /\ variant = "deps"
    /\ life = "mounted"
    /\ renders >= 2
    /\ Len(fetches) = 1
    /\ fetches[1].st = "rejected"
    /\ items = 0
    /\ itemsQ = <<>>
    /\ effectQ = <<>>

\* C15: nothing guards a late resolution: the first effect retains no
\* cleanup, teardown leaves the fetches in flight as they are, and a fetch
\* that resolves after teardown calls setItems.
C15_LateResolutionUnguarded ==
    [][ app = "UseEffect" =>
          /\ (life = "mounted" /\ life' = "torndown") =>
                (fetches' = fetches /\ cleanupOf["main"] = 0)
          /\ (life = "torndown" /\ \E i \in 1..Len(fetches) : Settles(i, "resolved")) =>
                lateSetItems'
          /\ (lateSetItems' /\ ~lateSetItems) =>
                (life = "torndown" /\ \E i \in 1..Len(fetches) : Settles(i, "resolved"))
      ]_vars

\* A fetch that was in flight at teardown has resolved and called setItems.
C15_Witness ==
    /\ app = "UseEffect"
    /\ variant = "deps"
    /\ life = "torndown"
    /\ lateSetItems
    /\ \E i \in 1..Len(fetches) : fetches[i].st = "resolved"

\* Every fetch issued has succeeded and nothing is pending: no setter call
\* waits for a pass and no effect step waits to run.
AllFetchesResolvedAndIdle ==
    /\ app = "UseEffect"
    /\ variant = "deps"
    /\ life = "mounted"
    /\ effectQ = <<>>
    /\ rtQ = <<>> /\ itemsQ = <<>> /\ wsQ = <<>>
    /\ fetches # <<>>
    /\ \A i \in 1..Len(fetches) : fetches[i].st = "resolved"

\* C16: with every fetch succeeded and none in flight, items holds the
\* response of a fetch issued for the current resourceType, in whatever order
\* the responses arrived.
C16_ItemsMatchResourceType ==
    AllFetchesResolvedAndIdle =>
        (items # 0 /\ fetches[items].res = resourceType)

\* C17: with the live lines (13, 24, 28), once the clicks handled so far are
\* applied, state has exactly the keys count and theme, count is the clicks
\* on "+" minus the clicks on "-", theme is "blue" after a last click on "+"
\* or no click and "red" after a last click on "-"; the count cell is 1.
C17_ObjectStateTracksClicks ==
    ( /\ app = "UseState" /\ life = "mounted"
      /\ countForm = "lazy" /\ incLine = "L24" /\ decLine = "L28" ) =>
        /\ count = 1
        /\ DOMAIN state = {"count", "theme"}
        /\ handled = <<>> =>
              /\ state.count = incs - (clicks - incs)
              /\ state.theme = (IF applied = <<>> \/ applied[Len(applied)] = "inc"
                                THEN "blue" ELSE "red")
              /\ (applied = <<>>) <=> (clicks = 0)

\* One click on "+" and two on "-", the last on "-": {count:-1, theme:"red"}.
C17_Witness ==
    /\ app = "UseState" /\ life = "mounted"
    /\ countForm = "lazy" /\ incLine = "L24" /\ decLine = "L28"
    /\ handled = <<>>
    /\ clicks = 3
    /\ incs = 1
    /\ state.count = -1
    /\ state.theme = "red"
    /\ count = 1

\* The place of registration e in the life of its instance.
RegState(e) ==
    IF life = "new" THEN "Unregistered"
    ELSE IF life = "torndown" THEN "TornDown"
    ELSE IF \E i \in 1..Len(effectQ) : effectQ[i] = [op |-> "run", reg |-> e]
         THEN (IF runs[e] = 0 THEN "Scheduled" ELSE "CleanupThenRerun")
    ELSE "Ran"

RegTransitions ==
    { <<"Unregistered", "Scheduled">>, <<"Scheduled", "Ran">>,
      <<"Ran", "CleanupThenRerun">>, <<"CleanupThenRerun", "Ran">>,
      <<"Ran", "TornDown">> }

\* C18: each registration moves Unregistered -> Scheduled -> Ran ->
\* (CleanupThenRerun -> Ran)* -> TornDown; teardown invokes the retained
\* cleanups; and once the instance is torn down no callback and no cleanup
\* runs, no effect is queued, no fetch is issued and no listener changes,
\* whatever resolves or resizes afterwards.
C18_TornDownTerminal ==
    [][ app = "UseEffect" =>
          /\ \A e \in RegSet :
                (RegState(e)' # RegState(e)) => <<RegState(e), RegState(e)'>> \in RegTransitions
          /\ (life = "mounted" /\ life' = "torndown") =>
                (effectQ = <<>> /\ \A e \in RegSet : cleanupOf'[e] = 0)
          /\ life = "torndown" =>
                /\ life' = "torndown"
                /\ UNCHANGED <<runs, cleanups, cleanupOf, effectQ, listeners, renders>>
                /\ Len(fetches') = Len(fetches)
      ]_vars

\* The fetch effect reran once, the instance was torn down, and a fetch
\* resolved afterwards: the counts are those of the teardown.
C18_Witness ==
    /\ app = "UseEffect"
    /\ life = "torndown"
    /\ lateSetItems
    /\ lateResize = "ignored"
    /\ runs = [main |-> 2, resize |-> 1]
    /\ cleanups = [main |-> 0, resize |-> 1]

====
